---- MODULE Spec2Model ----
(***************************************************************************)
(* Model of the heaviest-branch tip selector (package mselection):        *)
(* HeaviestSelector with OnNewSolidMessage, SelectTips, reset and         *)
(* GetTrackedMessagesCount.                                                *)
(*                                                                         *)
(* Sections of the code that run while holding the selector's mutex are   *)
(* single actions.  SelectTips releases the mutex after tipsToList and    *)
(* takes it again in reset, so it is a small process: one action for the  *)
(* snapshot, one per iteration of the heaviest loop, one per iteration of *)
(* the random loop and one for the final reset.  OnNewSolidMessage may    *)
(* run between any two of these.                                           *)
(*                                                                         *)
(* A bitset is the set of its set bit positions.  The records of          *)
(* trackedMessages are shared by pointer between the tracked map and the  *)
(* working list of a selection, so the working list holds message ids and *)
(* the bitsets live in trackedMessages only.                               *)
(*                                                                         *)
(* SpecMutex runs the same calls as goroutines that take and release the   *)
(* mutex where the code does, to see which accesses to the tracked map it  *)
(* protects.                                                               *)
(***************************************************************************)
EXTENDS FiniteSets, Integers, Sequences, TLC

\* ---------------------------------------------------------------- bounds
MaxMsgs == 3            \* number of distinct message ids ever delivered
MaxThreshold == 2       \* largest minHeaviestBranchUnreferencedMessagesThreshold
MaxHeaviest == 2        \* largest maxHeaviestBranchTipsPerCheckpoint
MaxRandom == 1          \* largest randomTipsPerCheckpoint
MaxMinRequired == 1     \* largest minRequiredTips passed to SelectTips

MIDs == 1..MaxMsgs
\* 0 stands for a parent that was never handed to the selector
\* (a message outside of the tracking window).
NoMsg == 0

VARIABLES
    minHeaviestBranchUnreferencedMessagesThreshold,
    maxHeaviestBranchTipsPerCheckpoint,
    randomTipsPerCheckpoint,
    heaviestBranchSelectionDeadline,
    trackedMessages,   \* message id -> [idx, tip, refs]
    tips,              \* sequence of message ids, the list of available tips
    delivered,         \* environment: how many messages became solid so far
    parents,           \* environment: tracked message id -> the parents it was tracked with
    pc,                \* position of the SelectTips caller
    minRequiredTips,   \* SelectTips: argument
    tipsList,          \* SelectTips: working list (keys of the msgs map)
    selTips,           \* SelectTips: local "tips", the message ids collected so far
    i,                 \* SelectTips: loop counter
    deadlineExceeded,  \* SelectTips: local flag
    snapshot,          \* history: tips and refs as they were when tipsToList ran
    picks,             \* history: one record per tip appended to selTips
    result,            \* what the last completed call returned
    mutex,             \* sync.Mutex: the goroutine that holds it, or "none"
    tpc                \* goroutine -> where it stands with respect to the mutex

vars == <<minHeaviestBranchUnreferencedMessagesThreshold,
          maxHeaviestBranchTipsPerCheckpoint, randomTipsPerCheckpoint,
          heaviestBranchSelectionDeadline, trackedMessages, tips, delivered,
          parents, pc,
          minRequiredTips, tipsList, selTips, i, deadlineExceeded, snapshot,
          picks, result, mutex, tpc>>

config == <<minHeaviestBranchUnreferencedMessagesThreshold,
            maxHeaviestBranchTipsPerCheckpoint, randomTipsPerCheckpoint,
            heaviestBranchSelectionDeadline>>

selLocals == <<minRequiredTips, tipsList, selTips, i, deadlineExceeded,
               snapshot, picks>>

lockVars == <<mutex, tpc>>

\* one goroutine per caller: the solidifier (OnNewSolidMessage), the metrics
\* reader (GetTrackedMessagesCount) and the milestone issuer (SelectTips)
Threads == {"ingest", "count", "select"}

\* ------------------------------------------------------------- helpers
EmptyMap == [m \in {} |-> 0]

Tracked == DOMAIN trackedMessages

SeqToSet(s) == {s[k] : k \in 1..Len(s)}

\* list.Remove: the sequence without the element m, order kept
RECURSIVE ListRemove(_, _)
ListRemove(s, m) ==
    IF s = <<>> THEN <<>>
    ELSE IF Head(s) = m THEN ListRemove(Tail(s), m)
    ELSE <<Head(s)>> \o ListRemove(Tail(s), m)

\* op: the call; contains: the local of line 240; val: the returned count;
\* out: the returned tips; err: ErrNoTipsAvailable was returned
Result(op, contains, val, out, err) ==
    [op |-> op, contains |-> contains, val |-> val, out |-> out, err |-> err]

NoSnapshot == [tips |-> {}, refs |-> EmptyMap]

\* -------------------------------------------------------------- reset
\* variant: only the tip list is replaced
reset_TipsOnly ==
    /\ trackedMessages' = trackedMessages
    /\ tips' = <<>>

\* variant: only what the running selection has seen is cleared
reset_KeepsLate ==
    /\ trackedMessages' = [m \in Tracked \ DOMAIN snapshot.refs |-> trackedMessages[m]]
    /\ tips' = SelectSeq(tips, LAMBDA m : m \notin DOMAIN snapshot.refs)

\* reset: a fresh tracked map and a fresh tip list, under the mutex
reset ==
    /\ trackedMessages' = EmptyMap
    /\ tips' = <<>>

\* New: the configuration is fixed at construction, then reset()
Init ==
    /\ minHeaviestBranchUnreferencedMessagesThreshold \in {0, MaxThreshold}
    /\ maxHeaviestBranchTipsPerCheckpoint \in 0..MaxHeaviest
    /\ randomTipsPerCheckpoint \in 0..MaxRandom
    /\ heaviestBranchSelectionDeadline \in {0, 1}
    /\ trackedMessages = EmptyMap
    /\ tips = <<>>
    /\ delivered = 0
    /\ parents = EmptyMap
    /\ pc = "idle"
    /\ minRequiredTips = 0
    /\ tipsList = {}
    /\ selTips = <<>>
    /\ i = 0
    /\ deadlineExceeded = FALSE
    /\ snapshot = NoSnapshot
    /\ picks = <<>>
    /\ result = Result("new", FALSE, 0, <<>>, FALSE)
    /\ mutex = "none"
    /\ tpc = [t \in Threads |-> "out"]

\* ---------------------------------------------- GetTrackedMessagesCount
GetTrackedMessagesCount(tm) == Cardinality(DOMAIN tm)

TrackedCount ==
    /\ result' = Result("count", FALSE, GetTrackedMessagesCount(trackedMessages), <<>>, FALSE)
    /\ UNCHANGED <<config, trackedMessages, tips, delivered, parents, pc, selLocals>>

\* --------------------------------------------------- OnNewSolidMessage
\* s.trackedMessages[key]: the record, or nil (here: NoMsg) when absent
Lookup(tm, p) == IF p \in DOMAIN tm THEN p ELSE NoMsg

\* variant: the refs of parent1 are united twice, those of parent2 never
NewRefs_Parent1Twice(tm, idx, parent1Item, parent2Item) ==
    {idx} \cup (IF parent1Item # NoMsg THEN tm[parent1Item].refs ELSE {})

\* variant: the bitset is the union of the parents' refs, without an own bit
NewRefs_NoOwnBit(tm, idx, parent1Item, parent2Item) ==
    (IF parent1Item # NoMsg THEN tm[parent1Item].refs ELSE {})
      \cup (IF parent2Item # NoMsg THEN tm[parent2Item].refs ELSE {})

\* lines 252-258: own bit, united with the refs of each parent found
NewRefs(tm, idx, parent1Item, parent2Item) ==
    {idx}
      \cup (IF parent1Item # NoMsg THEN tm[parent1Item].refs ELSE {})
      \cup (IF parent2Item # NoMsg THEN tm[parent2Item].refs ELSE {})

\* HeaviestSelector.removeTip on the tracked map: clear the tip pointer
removeTipItem(tm, it) ==
    IF it = NoMsg \/ ~tm[it].tip THEN tm
    ELSE [tm EXCEPT ![it].tip = FALSE]

\* variant: the parent stays in the tip list
removeTipList_Keeps(tm, l, it) == l

\* HeaviestSelector.removeTip on the tip list
removeTipList(tm, l, it) ==
    IF it = NoMsg \/ ~tm[it].tip THEN l
    ELSE ListRemove(l, it)

\* the value of the named result on the "filter duplicate messages" return
DuplicateReturn(tm) == 0

\* The caller contract (doc comment of OnNewSolidMessage): messages arrive in
\* the order of solidification, so a message that is new to the node has
\* parents that became solid before it (or that lie outside, NoMsg).  A
\* message that is already tracked may be handed in again with any parents.
\* New message ids are used in increasing order: ids are opaque keys.
CanDeliver(m, p1, p2) ==
    /\ m = delivered + 1
    /\ p1 \in (0..delivered) \ {m}
    /\ p2 \in (0..delivered) \ {m}

\* the parents of a message that the selector tracks when the message arrives
\* (every message that became solid before a tracked one and after the last
\* reset is tracked, so an untracked parent has no tracked ancestor)
TrackedParents(tm, p1, p2) == {p1, p2} \cap DOMAIN tm

\* variant: the index is taken from the length of the tip list
NextIndex_Tips(tm) == Cardinality({m \in DOMAIN tm : tm[m].tip})

\* line 251: idx := uint(len(s.trackedMessages))
NextIndex(tm) == Cardinality(DOMAIN tm)

\* variant: the duplicate filter runs after the tips were updated
DuplicateMessage_UpdatesTips(m, p1, p2) ==
    /\ result' = Result("ingest", TRUE, DuplicateReturn(trackedMessages), <<>>, FALSE)
    /\ trackedMessages' = removeTipItem(trackedMessages, Lookup(trackedMessages, p1))
    /\ tips' = removeTipList(trackedMessages, tips, Lookup(trackedMessages, p1))
    /\ UNCHANGED <<config, delivered, parents, pc, selLocals>>

\* lines 239-242: filter duplicate messages
DuplicateMessage(m, p1, p2) ==
    /\ result' = Result("ingest", TRUE, DuplicateReturn(trackedMessages), <<>>, FALSE)
    /\ UNCHANGED <<config, trackedMessages, tips, delivered, parents, pc, selLocals>>

\* variant: the parents are dropped from the tracked messages
NewMessage_DropsParents(m, p1, p2) ==
    /\ CanDeliver(m, p1, p2)
    /\ LET idx == NextIndex(trackedMessages)
           it == [idx |-> idx, tip |-> TRUE,
                  refs |-> NewRefs(trackedMessages, idx, Lookup(trackedMessages, p1),
                                   Lookup(trackedMessages, p2))]
           keep == (Tracked \ {p1, p2}) \cup {m}
       IN /\ trackedMessages' =
                [k \in keep |-> IF k = m THEN it ELSE trackedMessages[k]]
          /\ tips' = Append(SelectSeq(tips, LAMBDA t : t \notin {p1, p2}), m)
          /\ parents' = [k \in keep |-> IF k = m THEN {} ELSE parents[k] \cap keep]
          /\ delivered' = delivered + 1
          /\ result' = Result("ingest", FALSE,
                              GetTrackedMessagesCount(trackedMessages'), <<>>, FALSE)
    /\ UNCHANGED <<config, pc, selLocals>>

\* lines 244-266: track the message and update the tips
NewMessage(m, p1, p2) ==
    /\ CanDeliver(m, p1, p2)
    /\ LET parent1Item == Lookup(trackedMessages, p1)
           parent2Item == Lookup(trackedMessages, p2)
           idx == NextIndex(trackedMessages)
           it == [idx |-> idx, tip |-> TRUE,
                  refs |-> NewRefs(trackedMessages, idx, parent1Item, parent2Item)]
           tm1 == removeTipItem(trackedMessages, parent1Item)
           l1 == removeTipList(trackedMessages, tips, parent1Item)
           tm2 == removeTipItem(tm1, parent2Item)
           l2 == removeTipList(tm1, l1, parent2Item)
           tm3 == (m :> it) @@ tm2
       IN /\ trackedMessages' = tm3
          /\ tips' = Append(l2, m)
          /\ result' = Result("ingest", FALSE, GetTrackedMessagesCount(tm3), <<>>, FALSE)
    /\ delivered' = m
    /\ parents' = (m :> TrackedParents(trackedMessages, p1, p2)) @@ parents
    /\ UNCHANGED <<config, pc, selLocals>>

OnNewSolidMessage(m, p1, p2) ==
    IF m \in Tracked
    THEN DuplicateMessage(m, p1, p2)
    ELSE NewMessage(m, p1, p2)

\* (the duplicate filter returns before the parents are read; a tracked
\* message is handed in again without parents or with the oldest tip as both)
DuplicateParents == {NoMsg} \cup (IF tips = <<>> THEN {} ELSE {Head(tips)})

Ingest ==
    \E m \in MIDs :
        IF m \in Tracked
        THEN \E p \in DuplicateParents : OnNewSolidMessage(m, p, p)
        ELSE \E p1, p2 \in 0..delivered : OnNewSolidMessage(m, p1, p2)

\* ---------------------------------------------------------- SelectTips
\* tipsToList: the keys of a new map holding the current tips
tipsToList(l) == SeqToSet(l)

\* variant: the smallest count over the working list
BestCount_Min(tm, W) ==
    LET counts == {Cardinality(tm[t].refs) : t \in W}
    IN IF counts = {} THEN 0 ELSE CHOOSE c \in counts : \A d \in counts : c <= d

\* selectTip: the largest count over the working list and the tips reaching it
BestCount(tm, W) ==
    LET counts == {Cardinality(tm[t].refs) : t \in W}
    IN CHOOSE c \in counts \cup {0} : \A d \in counts : c >= d

\* variant: any entry of the working list can be returned
BestTips_Any(tm, W) == W

BestTips(tm, W) == {t \in W : Cardinality(tm[t].refs) = BestCount(tm, W)}

\* variant: one pass too many
LoopContinues_LE(k, limit) == k <= limit

\* the loop conditions of lines 188 and 216
LoopContinues(k, limit) == k < limit

\* variant: the minimum counts as reached one tip too early
EarlyStop_GE(n, minRequired, count, threshold, exceeded) ==
    (n >= minRequired) /\ ((count < threshold) \/ exceeded)

\* variant: the threshold and the deadline stop the loop whatever was collected
EarlyStop_IgnoresMinimum(n, minRequired, count, threshold, exceeded) ==
    (count < threshold) \/ exceeded

\* variant: only the deadline stops the loop, the threshold is not looked at
EarlyStop_DeadlineOnly(n, minRequired, count, threshold, exceeded) ==
    (n > minRequired) /\ exceeded

\* line 201: the early-stop test
EarlyStop(n, minRequired, count, threshold, exceeded) ==
    (n > minRequired) /\ ((count < threshold) \/ exceeded)

\* variant: the picked tip is deleted from the tracked messages as well
referenceTip_Untracks(tm, W, tip) ==
    [m \in DOMAIN tm \ {tip} |->
        IF m \in W
        THEN [tm[m] EXCEPT !.refs = tm[m].refs \ tm[tip].refs]
        ELSE tm[m]]

\* variant: the bitsets of the remaining tips are left as they are
referenceTip_NoThinning(tm, W, tip) == tm

\* trackedMessagesList.referenceTip: the bitsets of the remaining tips
referenceTip(tm, W, tip) ==
    [m \in DOMAIN tm |->
        IF m \in W \ {tip}
        THEN [tm[m] EXCEPT !.refs = tm[m].refs \ tm[tip].refs]
        ELSE tm[m]]

\* variant: the random tip is drawn from the selector's tip list
randomTip_Live(W) == SeqToSet(tips)

\* trackedMessagesList.randomTip: any entry of the map can be the one returned
randomTip(W) == W

ClearLocals ==
    /\ minRequiredTips' = 0
    /\ tipsList' = {}
    /\ selTips' = <<>>
    /\ i' = 0
    /\ deadlineExceeded' = FALSE
    /\ snapshot' = NoSnapshot
    /\ picks' = <<>>

\* variant: the selector is reset on the error return as well
ReturnNoTips_Reset ==
    /\ result' = Result("select", FALSE, 0, <<>>, TRUE)
    /\ pc' = "idle"
    /\ trackedMessages' = EmptyMap
    /\ tips' = <<>>

\* "return nil, ErrNoTipsAvailable" (lines 177 and 212)
ReturnNoTips ==
    /\ result' = Result("select", FALSE, 0, <<>>, TRUE)
    /\ pc' = "idle"
    /\ UNCHANGED <<trackedMessages, tips>>

\* lines 173-186
SelectTips(minRequired) ==
    /\ pc = "idle"
    /\ LET W == tipsToList(tips)
       IN IF W = {}
          THEN /\ ClearLocals
               /\ ReturnNoTips
          ELSE /\ tipsList' = W
               /\ snapshot' = [tips |-> W,
                               refs |-> [m \in Tracked |-> trackedMessages[m].refs]]
               /\ minRequiredTips' = minRequired
               /\ selTips' = <<>>
               /\ picks' = <<>>
               /\ i' = 0
               /\ deadlineExceeded' = FALSE
               /\ pc' = "heaviest"
               /\ UNCHANGED <<trackedMessages, tips, result>>
    /\ UNCHANGED <<config, delivered, parents>>

SelectTipsCall == \E minRequired \in 0..MaxMinRequired : SelectTips(minRequired)

\* variant: the deadline is never seen as passed
CtxDone_Never == {FALSE}

\* what "case <-ctx.Done()" can observe: with a deadline of zero the context
\* is done from the start, otherwise it may or may not be done yet
CtxDone == IF heaviestBranchSelectionDeadline = 0 THEN {TRUE} ELSE {FALSE, TRUE}

\* variant: no random padding once the deadline has passed
AfterHeaviestLoop_SkipsPadding(exceeded) ==
    IF Len(selTips) = 0
    THEN /\ snapshot' = snapshot
         /\ ReturnNoTips
         /\ minRequiredTips' = 0
         /\ tipsList' = {}
         /\ selTips' = <<>>
         /\ i' = 0
         /\ deadlineExceeded' = FALSE
         /\ picks' = <<>>
    ELSE /\ pc' = IF exceeded THEN "reset" ELSE "random"
         /\ i' = 0
         /\ deadlineExceeded' = exceeded
         /\ UNCHANGED <<trackedMessages, tips, result, minRequiredTips,
                        tipsList, selTips, snapshot, picks>>

\* leaving the heaviest loop: lines 211-213
AfterHeaviestLoop(exceeded) ==
    IF Len(selTips) = 0
    THEN /\ snapshot' = snapshot
         /\ ReturnNoTips
         /\ minRequiredTips' = 0
         /\ tipsList' = {}
         /\ selTips' = <<>>
         /\ i' = 0
         /\ deadlineExceeded' = FALSE
         /\ picks' = <<>>
    ELSE /\ pc' = "random"
         /\ i' = 0
         /\ deadlineExceeded' = exceeded
         /\ UNCHANGED <<trackedMessages, tips, result, minRequiredTips,
                        tipsList, selTips, snapshot, picks>>

\* one pass of the loop of lines 188-209
HeaviestLoop ==
    /\ pc = "heaviest"
    /\ IF ~LoopContinues(i, maxHeaviestBranchTipsPerCheckpoint)
       THEN AfterHeaviestLoop(deadlineExceeded)
       ELSE \E done \in CtxDone :
            LET exceeded == deadlineExceeded \/ done
                count == BestCount(trackedMessages, tipsList)
            IN IF tipsList = {}
               THEN AfterHeaviestLoop(exceeded)
               ELSE \E tip \in BestTips(trackedMessages, tipsList) :
                    IF EarlyStop(Len(selTips), minRequiredTips, count,
                                 minHeaviestBranchUnreferencedMessagesThreshold, exceeded)
                    THEN AfterHeaviestLoop(exceeded)
                    ELSE /\ trackedMessages' = referenceTip(trackedMessages, tipsList, tip)
                         /\ tipsList' = tipsList \ {tip}
                         /\ selTips' = Append(selTips, tip)
                         /\ picks' = Append(picks, [mid |-> tip, count |-> count,
                                                    heaviest |-> TRUE, exceeded |-> exceeded])
                         /\ i' = i + 1
                         /\ deadlineExceeded' = exceeded
                         /\ UNCHANGED <<tips, pc, minRequiredTips, snapshot, result>>
    /\ UNCHANGED <<config, delivered, parents>>

\* one pass of the loop of lines 216-224
RandomLoop ==
    /\ pc = "random"
    /\ IF LoopContinues(i, randomTipsPerCheckpoint) /\ tipsList # {}
       THEN \E item \in randomTip(tipsList) :
            /\ trackedMessages' = referenceTip(trackedMessages, tipsList, item)
            /\ tipsList' = tipsList \ {item}
            /\ selTips' = Append(selTips, item)
            /\ picks' = Append(picks, [mid |-> item,
                                       count |-> Cardinality(trackedMessages[item].refs),
                                       heaviest |-> FALSE, exceeded |-> deadlineExceeded])
            /\ i' = i + 1
            /\ UNCHANGED <<tips, pc, minRequiredTips, deadlineExceeded, snapshot, result>>
       ELSE /\ pc' = "reset"
            /\ UNCHANGED <<trackedMessages, tips, selLocals, result>>
    /\ UNCHANGED <<config, delivered, parents>>

\* lines 226-229: reset the whole selector and return the tips
ResetAndReturn ==
    /\ pc = "reset"
    /\ reset
    /\ result' = Result("select", FALSE, 0, selTips, FALSE)
    /\ pc' = "idle"
    /\ ClearLocals
    /\ parents' = [m \in DOMAIN trackedMessages' |-> parents[m]]
    /\ UNCHANGED <<config, delivered>>

Next ==
    \/ Ingest /\ UNCHANGED lockVars
    \/ TrackedCount /\ UNCHANGED lockVars
    \/ SelectTipsCall /\ UNCHANGED lockVars
    \/ HeaviestLoop /\ UNCHANGED lockVars
    \/ RandomLoop /\ UNCHANGED lockVars
    \/ ResetAndReturn /\ UNCHANGED lockVars

Spec == Init /\ [][Next]_vars

\* ------------------------------------------------------------ the mutex
mainVars == <<config, trackedMessages, tips, delivered, parents, pc,
              selLocals, result>>

\* s.Lock(): blocks until the mutex is free
Lock(t) ==
    /\ tpc[t] = "out"
    /\ mutex = "none"
    /\ mutex' = t
    /\ tpc' = [tpc EXCEPT ![t] = "locked"]
    /\ UNCHANGED mainVars

\* variant: the section is left with the mutex still held
Unlock_KeepsMutex(t) ==
    /\ tpc[t] = "locked"
    /\ mutex = t
    /\ mutex' = mutex
    /\ tpc' = [tpc EXCEPT ![t] = "out"]

\* the deferred s.Unlock() at the end of a locked section
Unlock(t) ==
    /\ tpc[t] = "locked"
    /\ mutex = t
    /\ mutex' = "none"
    /\ tpc' = [tpc EXCEPT ![t] = "out"]

\* some call of OnNewSolidMessage is left to make: a duplicate of a tracked
\* message, or the next of the MaxMsgs messages
CanIngest == Tracked # {} \/ delivered < MaxMsgs

\* OnNewSolidMessage, line 236
IngestLock == CanIngest /\ Lock("ingest")

\* OnNewSolidMessage, lines 239-267, with the mutex held
IngestLocked == Ingest /\ Unlock("ingest")

\* tipsToList (line 280) and reset (line 103) as called from SelectTips
SelectLock ==
    /\ pc \in {"idle", "reset"}
    /\ Lock("select")

\* tipsToList, lines 283-288, and the return to SelectTips, lines 176-186
SelectSnapshotLocked == SelectTipsCall /\ Unlock("select")

\* the loops of SelectTips run without the mutex
SelectHeaviest == HeaviestLoop /\ tpc["select"] = "out" /\ UNCHANGED lockVars

SelectRandom == RandomLoop /\ tpc["select"] = "out" /\ UNCHANGED lockVars

\* reset, lines 106-110, and the return of SelectTips
SelectResetLocked == ResetAndReturn /\ Unlock("select")

\* GetTrackedMessagesCount called from outside: it takes no lock
CountEnter ==
    /\ tpc["count"] = "out"
    /\ tpc' = [tpc EXCEPT !["count"] = "reading"]
    /\ UNCHANGED <<mutex, mainVars>>

\* line 293: len(s.trackedMessages); next to a running OnNewSolidMessage or
\* reset the read sees the map as it was before or as it is after
CountRead ==
    /\ tpc["count"] = "reading"
    /\ TrackedCount
    /\ tpc' = [tpc EXCEPT !["count"] = "out"]
    /\ UNCHANGED mutex

NextMutex ==
    \/ IngestLock
    \/ IngestLocked
    \/ SelectLock
    \/ SelectSnapshotLocked
    \/ SelectHeaviest
    \/ SelectRandom
    \/ SelectResetLocked
    \/ CountEnter
    \/ CountRead

SpecMutex == Init /\ [][NextMutex]_vars

\* fair scheduling: a goroutine that can take its next step is eventually
\* run, and a goroutine waiting in s.Lock() inside a call gets the mutex
\* although others keep taking and releasing it (sync.Mutex hands the lock
\* to a starving waiter)
FairMutex ==
    /\ WF_vars(IngestLocked)
    /\ WF_vars(SelectSnapshotLocked)
    /\ WF_vars(SelectHeaviest)
    /\ WF_vars(SelectRandom)
    /\ WF_vars(SelectResetLocked)
    /\ WF_vars(CountRead)
    /\ SF_vars(SelectLock /\ pc = "reset")

SpecMutexFair == Init /\ [][NextMutex]_vars /\ FairMutex

\* ============================================================ properties
Refs(m) == trackedMessages[m].refs

\* the tracked messages from which m descends
RECURSIVE Ancestors(_)
Ancestors(m) == UNION {{p} \cup Ancestors(p) : p \in parents[m]}

NumHeaviest == Cardinality({k \in 1..Len(picks) : picks[k].heaviest})

\* a step that is a duplicate OnNewSolidMessage (every step of SelectTips
\* changes pc or i, every other call sets another result)
IsDuplicateIngest ==
    /\ result'.op = "ingest"
    /\ result'.contains
    /\ UNCHANGED <<pc, i>>

\* a step on which SelectTips returns ErrNoTipsAvailable
IsFailedSelect ==
    /\ result'.op = "select"
    /\ result'.err
    /\ pc' = "idle"
    /\ pc \in {"idle", "heaviest"}

\* C1: an ingest of a message id that is not tracked gives it the own bit
\* n = |tracked| before the call, refs = {n} united with the refs of those of
\* its parents that are tracked, adds it to tracked and returns n + 1, the
\* new size of tracked, without an error.
C1_IngestNewMessage ==
    [][\A m \in Tracked' \ Tracked :
          LET n == Cardinality(Tracked)
          IN /\ Tracked' = Tracked \cup {m}
             /\ trackedMessages'[m].idx = n
             /\ parents'[m] \subseteq Tracked
             /\ trackedMessages'[m].refs = {n} \cup UNION {Refs(p) : p \in parents'[m]}
             /\ result' = Result("ingest", FALSE, n + 1, <<>>, FALSE)
             /\ result'.val = GetTrackedMessagesCount(trackedMessages')]_vars

\* C1 witness: the third message was tracked with exactly one tracked parent,
\* which itself had a tracked parent; the call returned 3.
C1_Witness ==
    /\ result = Result("ingest", FALSE, 3, <<>>, FALSE)
    /\ \E m \in Tracked :
        /\ trackedMessages[m].idx = 2
        /\ Cardinality(parents[m]) = 1
        /\ Refs(m) = {0, 1, 2}

\* C2 (as claimed): an ingest of a message id that is already tracked returns
\* the current size of tracked, the value GetTrackedMessagesCount returns.
C2_DuplicateReturnsSize ==
    (result.op = "ingest" /\ result.contains)
        => result.val = GetTrackedMessagesCount(trackedMessages)

\* C3: an ingest of a message id that is already tracked leaves the tracked
\* map, every refs bitset and the tips sequence as they were.
C3_DuplicateChangesNothing ==
    [][IsDuplicateIngest => UNCHANGED <<trackedMessages, tips>>]_vars

\* C3 witness: a duplicate was handed in while three messages were tracked,
\* one of them no longer a tip.
C3_Witness ==
    /\ result.op = "ingest"
    /\ result.contains
    /\ Cardinality(Tracked) = 3
    /\ Len(tips) = 2

\* C4: tips has no duplicates, is a subset of tracked and holds exactly the
\* tracked messages that are not a parent of another tracked message.
C4_TipsAreChildless ==
    /\ \A j, k \in 1..Len(tips) : tips[j] = tips[k] => j = k
    /\ SeqToSet(tips) \subseteq Tracked
    /\ SeqToSet(tips) = {m \in Tracked : \A x \in Tracked : m \notin parents[x]}

\* C4 witness: a selection is under way, three messages are tracked, two of
\* them are tips and the third is their parent.
C4_Witness ==
    /\ pc = "random"
    /\ Cardinality(Tracked) = 3
    /\ Len(tips) = 2
    /\ \E m \in Tracked : \A t \in SeqToSet(tips) : parents[t] = {m}

\* C5: while no selection is in progress, the refs of every tracked message
\* are its own bit and the own bits of its tracked ancestors, so that
\* refs.count() = 1 + the number of tracked ancestors.
C5_RefsAreAncestors ==
    pc = "idle" =>
        \A m \in Tracked :
            /\ Refs(m) = {trackedMessages[m].idx}
                            \cup {trackedMessages[a].idx : a \in Ancestors(m)}
            /\ Cardinality(Refs(m)) = 1 + Cardinality(Ancestors(m))

\* C5 witness: after a failed SelectTips, a tracked message has two parents
\* one of which is an ancestor of the other.
C5_Witness ==
    /\ pc = "idle"
    /\ result.op = "select"
    /\ result.err
    /\ \E m \in Tracked : \E p, q \in parents[m] :
          /\ p # q
          /\ p \in Ancestors(q)
          /\ Cardinality(Refs(m)) = 3

\* C6: the own bits of the tracked messages are pairwise distinct and are
\* exactly 0 .. |tracked| - 1.
C6_IndicesAreDense ==
    /\ \A m, x \in Tracked : trackedMessages[m].idx = trackedMessages[x].idx => m = x
    /\ {trackedMessages[m].idx : m \in Tracked} = 0..(Cardinality(Tracked) - 1)

\* C6 witness: a duplicate was handed in after a reset; the second message
\* ever delivered has index 0 and another message is tracked with it.
C6_Witness ==
    /\ result.op = "ingest"
    /\ result.contains
    /\ 1 \notin Tracked
    /\ 2 \in Tracked
    /\ trackedMessages[2].idx = 0
    /\ Cardinality(Tracked) = 2

\* C7: when SelectTips returns ErrNoTipsAvailable, the returning step changes
\* neither the tracked map nor the tips, the snapshot step before it changed
\* neither, and every bitset that existed at the snapshot is as it was then.
C7_FailedSelectChangesNothing ==
    [][/\ IsFailedSelect =>
            /\ UNCHANGED <<trackedMessages, tips>>
            /\ \A m \in DOMAIN snapshot.refs :
                  m \in Tracked' /\ trackedMessages'[m].refs = snapshot.refs[m]
       /\ (pc = "idle" /\ pc' = "heaviest") => UNCHANGED <<trackedMessages, tips>>]_vars

\* C7 witness: SelectTips failed while two messages were tracked.
C7_Witness ==
    /\ result.op = "select"
    /\ result.err
    /\ pc = "idle"
    /\ Cardinality(Tracked) = 2
    /\ tips # <<>>

\* C8: with maxHeaviestBranchTipsPerCheckpoint >= 1 (minRequiredTips is never
\* negative here) SelectTips returns ErrNoTipsAvailable exactly when the tip
\* list is empty at the snapshot.
C8_ErrorIffNoTips ==
    [][maxHeaviestBranchTipsPerCheckpoint >= 1 =>
          /\ (pc = "idle" /\ pc' = "idle" /\ result'.op = "select")
                => (result'.err /\ tips = <<>>)
          /\ (pc = "idle" /\ pc' # "idle")
                => (tips # <<>> /\ minRequiredTips' >= 0)
          /\ (pc # "idle" /\ pc' = "idle")
                => (~result'.err /\ snapshot.tips # {})]_vars

\* C8 witness: a call is about to return tips although the deadline was zero
\* and the only pick contributed less than the threshold.
C8_Witness ==
    /\ pc = "reset"
    /\ heaviestBranchSelectionDeadline = 0
    /\ Len(picks) = 1
    /\ picks[1].exceeded
    /\ picks[1].count < minHeaviestBranchUnreferencedMessagesThreshold
    /\ Cardinality(snapshot.tips) = 2

\* C9: the step on which SelectTips returns tips empties the tracked map and
\* the tip list, so that GetTrackedMessagesCount is 0 right after it; and no
\* step empties one of the two without the other.
C9_SuccessResets ==
    [][/\ (pc = "reset" /\ pc' = "idle") =>
            /\ ~result'.err
            /\ result'.op = "select"
            /\ GetTrackedMessagesCount(trackedMessages') = 0
            /\ tips' = <<>>
       /\ (Tracked # {} /\ Tracked' = {}) <=> (tips # <<>> /\ tips' = <<>>)]_vars

\* C9 witness: SelectTips has returned two tips and nothing is tracked.
C9_Witness ==
    /\ result.op = "select"
    /\ ~result.err
    /\ Len(result.out) = 2
    /\ Tracked = {}
    /\ tips = <<>>

\* C10: a successful SelectTips returns between 1 and
\* maxHeaviestBranchTipsPerCheckpoint + randomTipsPerCheckpoint tips, at most
\* maxHeaviestBranchTipsPerCheckpoint of them from the heaviest loop.
C10_OutputLength ==
    /\ (result.op = "select" /\ ~result.err) =>
          /\ Len(result.out) >= 1
          /\ Len(result.out) <= maxHeaviestBranchTipsPerCheckpoint + randomTipsPerCheckpoint
    /\ pc = "reset" =>
          /\ Len(selTips) >= 1
          /\ Len(selTips) <= maxHeaviestBranchTipsPerCheckpoint + randomTipsPerCheckpoint
          /\ Len(picks) = Len(selTips)
          /\ NumHeaviest <= maxHeaviestBranchTipsPerCheckpoint

\* C10 witness: a call is about to return three tips, two heaviest ones and a
\* random one, which is the most the configuration allows.
C10_Witness ==
    /\ pc = "reset"
    /\ Len(selTips) = 3
    /\ NumHeaviest = 2
    /\ maxHeaviestBranchTipsPerCheckpoint = 2
    /\ randomTipsPerCheckpoint = 1

\* the goroutines that stand at a write to s.trackedMessages (line 259 and
\* line 107)
AtMapWrite(t) ==
    \/ t = "ingest" /\ tpc[t] = "locked"
    \/ t = "select" /\ tpc[t] = "locked" /\ pc = "reset"

NoDuplicates(s) == \A j, k \in 1..Len(s) : s[j] = s[k] => j = k

\* C11: every message id SelectTips returns was in the tip list when the
\* snapshot was taken, none is returned twice, and while the call runs what
\* it has collected and what it can still pick make up the snapshot, whatever
\* is ingested meanwhile.
C11_OutputFromSnapshot ==
    [][/\ pc' # "idle" =>
            /\ SeqToSet(selTips') \subseteq snapshot'.tips
            /\ NoDuplicates(selTips')
            /\ tipsList' = snapshot'.tips \ SeqToSet(selTips')
       /\ (pc = "idle" /\ pc' # "idle") => snapshot'.tips = SeqToSet(tips)
       /\ (pc # "idle" /\ pc' # "idle") => snapshot' = snapshot
       /\ (pc = "reset" /\ pc' = "idle") =>
            /\ result'.out = selTips
            /\ SeqToSet(result'.out) \subseteq snapshot.tips
            /\ NoDuplicates(result'.out)]_vars

\* C11 witness: a call is about to return its tips while the tip list holds
\* a message that was ingested after the snapshot and can still be padded.
C11_Witness ==
    /\ pc = "reset"
    /\ randomTipsPerCheckpoint = 1
    /\ Len(selTips) = 2
    /\ \E m \in SeqToSet(tips) : m \notin snapshot.tips

\* C12 (as claimed): between the snapshot and the reset the refs of every
\* tracked record are what they were at the snapshot, and the refs of every
\* tracked message hold the own bits of all its tracked ancestors.
C12_SelectionKeepsRefs ==
    /\ pc # "idle" => \A m \in DOMAIN snapshot.refs : Refs(m) = snapshot.refs[m]
    /\ \A m \in Tracked :
          {trackedMessages[a].idx : a \in Ancestors(m)} \subseteq Refs(m)

\* C13 (as claimed): GetTrackedMessagesCount never reads the tracked map
\* while another goroutine stands at a write to it.
C13_CountNeverRaces ==
    ~(tpc["count"] = "reading" /\ \E t \in Threads \ {"count"} : AtMapWrite(t))

Min(a, b) == IF a <= b THEN a ELSE b

\* every heaviest pick comes before every random pick
HeaviestThenRandom ==
    \A j, k \in 1..Len(picks) :
        (picks[j].heaviest /\ ~picks[k].heaviest) => j < k

\* C14: within one SelectTips call the counts of the heaviest picks, each
\* taken at the moment of the pick, never increase from one pick to the next.
C14_HeaviestCountsNonIncreasing ==
    \A j, k \in 1..Len(picks) :
        (j < k /\ picks[j].heaviest /\ picks[k].heaviest)
            => picks[j].count >= picks[k].count

\* C14 witness: two heaviest picks with a strictly smaller second count.
C14_Witness ==
    /\ Len(picks) >= 2
    /\ picks[1].heaviest /\ picks[2].heaviest
    /\ picks[1].count = 2
    /\ picks[2].count = 1

\* C15 (as claimed): with a deadline of zero and two or more tips in the
\* snapshot a SelectTips call makes at most one heaviest pick, followed only
\* by random picks, whatever minRequiredTips is.
C15_DeadlineZeroOneHeaviest ==
    (pc # "idle" /\ heaviestBranchSelectionDeadline = 0
        /\ Cardinality(snapshot.tips) >= 2
        /\ maxHeaviestBranchTipsPerCheckpoint >= 1)
    => (NumHeaviest <= 1 /\ HeaviestThenRandom)

\* C15 (amended): with a deadline of zero a SelectTips call makes at most
\* minRequiredTips + 1 heaviest picks, hence at most one when minRequiredTips
\* is zero, followed only by random picks.
C15_DeadlineZeroMinRequiredPlusOne ==
    (pc # "idle" /\ heaviestBranchSelectionDeadline = 0
        /\ Cardinality(snapshot.tips) >= 2
        /\ maxHeaviestBranchTipsPerCheckpoint >= 1)
    => (NumHeaviest <= minRequiredTips + 1 /\ HeaviestThenRandom)

\* C15 witness: deadline zero, room for two heaviest picks and a threshold
\* that every tip reaches, and the call ends with one heaviest pick and one
\* random pick.
C15_Witness ==
    /\ pc = "reset"
    /\ heaviestBranchSelectionDeadline = 0
    /\ minHeaviestBranchUnreferencedMessagesThreshold = 0
    /\ maxHeaviestBranchTipsPerCheckpoint = 2
    /\ minRequiredTips = 0
    /\ Cardinality(snapshot.tips) >= 2
    /\ Len(picks) = 2
    /\ picks[1].heaviest /\ ~picks[2].heaviest

\* C16: the random loop runs exactly when a heaviest tip was chosen: the
\* heaviest loop ending with no pick makes the call fail with no random
\* pick, and a call that succeeds with h heaviest picks over a snapshot of s
\* tips has h >= 1 and min(randomTipsPerCheckpoint, s - h) random picks,
\* each taken from what is left of the snapshot.
C16_RandomPadding ==
    [][/\ (pc = "heaviest" /\ pc' # "heaviest" /\ Len(selTips) = 0)
            => (pc' = "idle" /\ result'.op = "select" /\ result'.err
                /\ result'.out = <<>>)
       /\ (pc = "heaviest" /\ pc' # "heaviest" /\ Len(selTips) > 0)
            => (pc' = "random" /\ UNCHANGED <<selTips, picks>>)
       /\ (pc = "random" /\ picks' # picks)
            => (/\ NumHeaviest >= 1
                /\ ~picks'[Len(picks')].heaviest
                /\ picks'[Len(picks')].mid \in tipsList)
       /\ (pc = "reset" /\ pc' = "idle")
            => (/\ NumHeaviest >= 1
                /\ Len(picks) - NumHeaviest =
                     Min(randomTipsPerCheckpoint,
                         Cardinality(snapshot.tips) - NumHeaviest)
                /\ ~result'.err
                /\ Len(result'.out) = Len(picks))]_vars

\* C16 witness: a call is about to succeed with a random pick whose count
\* was below the threshold, taken after the deadline had passed.
C16_Witness ==
    /\ pc = "reset"
    /\ minHeaviestBranchUnreferencedMessagesThreshold = 2
    /\ Len(picks) = 2
    /\ picks[1].heaviest
    /\ ~picks[2].heaviest
    /\ picks[2].count = 1
    /\ picks[2].exceeded

\* a step of SelectTips between its snapshot and its reset
IsSelectionStep ==
    /\ pc \in {"heaviest", "random"}
    /\ <<pc, i, selTips>>' # <<pc, i, selTips>>

\* a step that is an OnNewSolidMessage of a message that was not tracked
IsNewIngest ==
    /\ result'.op = "ingest"
    /\ ~result'.contains
    /\ UNCHANGED <<pc, selLocals>>

\* C17: the only steps that change which messages are tracked or which are
\* tips are the ingest of a new message, which adds it to both and takes its
\* tracked parents out of the tips, and the reset at the end of a successful
\* SelectTips, which empties both; no step of SelectTips between the
\* snapshot and that reset changes either.
C17_OnlyIngestAndResetChangeMembership ==
    [][/\ (Tracked' # Tracked \/ tips' # tips) =>
            \/ /\ IsNewIngest
               /\ \E m \in MIDs \ Tracked :
                    /\ Tracked' = Tracked \cup {m}
                    /\ SeqToSet(tips') = (SeqToSet(tips) \ parents'[m]) \cup {m}
            \/ /\ pc = "reset" /\ pc' = "idle"
               /\ Tracked' = {}
               /\ tips' = <<>>
       /\ IsSelectionStep => (Tracked' = Tracked /\ tips' = tips)]_vars

\* C17 witness: a selection has picked two tips and still finds them tracked
\* and in the tip list.
C17_Witness ==
    /\ pc = "random"
    /\ Len(selTips) = 2
    /\ SeqToSet(selTips) \subseteq SeqToSet(tips)
    /\ SeqToSet(selTips) \subseteq Tracked

\* the bits referenced by the tips picked so far, as they were at the snapshot
PickedRefs == UNION {snapshot.refs[p] : p \in SeqToSet(selTips)}

RECURSIVE SumCounts(_)
SumCounts(k) == IF k = 0 THEN 0 ELSE picks[k].count + SumCounts(k - 1)

\* C18: during a SelectTips call with no ingest since its snapshot, the
\* bitset of every remaining candidate is its bitset at the snapshot minus
\* the snapshot bitsets of the tips picked so far, the count of every pick is
\* the number of bits it added to those of the picks before it, and the
\* counts of the picks add up to the number of tracked messages referenced
\* by the picked tips.
C18_CountsAreNewlyReferenced ==
    (pc # "idle" /\ Tracked = DOMAIN snapshot.refs) =>
        /\ \A o \in tipsList : Refs(o) = snapshot.refs[o] \ PickedRefs
        /\ \A k \in 1..Len(picks) :
              picks[k].count =
                  Cardinality(snapshot.refs[picks[k].mid]
                      \ UNION {snapshot.refs[picks[j].mid] : j \in 1..(k - 1)})
        /\ SumCounts(Len(picks)) =
              Cardinality({m \in Tracked : trackedMessages[m].idx \in PickedRefs})

\* C18 witness: two picks whose snapshot bitsets overlap, with counts 2 and 1
\* for three referenced messages.
C18_Witness ==
    /\ pc = "reset"
    /\ Tracked = DOMAIN snapshot.refs
    /\ Len(picks) = 2
    /\ picks[1].count = 2
    /\ picks[2].count = 1
    /\ Cardinality(snapshot.refs[picks[2].mid]) = 2
    /\ Cardinality(PickedRefs) = 3

\* C19: the tip a pass of the heaviest loop appends is a candidate of the
\* working list whose count, at that moment, is the largest count of all
\* candidates, and the count reported with it is that largest count.
C19_HeaviestPickIsMaximal ==
    [][(pc = "heaviest" /\ picks' # picks) =>
          LET p == picks'[Len(picks')]
          IN /\ picks' = Append(picks, p)
             /\ selTips' = Append(selTips, p.mid)
             /\ p.heaviest
             /\ p.mid \in tipsList
             /\ \A o \in tipsList : Cardinality(Refs(o)) <= Cardinality(Refs(p.mid))
             /\ p.count = Cardinality(Refs(p.mid))]_vars

\* C19 witness: the first heaviest pick has count 2 while another tip of the
\* snapshot had count 1.
C19_Witness ==
    /\ pc = "heaviest"
    /\ Len(picks) = 1
    /\ picks[1].heaviest
    /\ picks[1].count = 2
    /\ \E o \in snapshot.tips : Cardinality(snapshot.refs[o]) = 1

\* C20: when the heaviest loop of SelectTips ends it has committed at least
\* min(minRequiredTips + 1, maxHeaviestBranchTipsPerCheckpoint, s) picks for
\* a snapshot of s tips, whatever the counts, the threshold and the deadline.
C20_MinimumHeaviestPicks ==
    [][(pc = "heaviest" /\ pc' # "heaviest") =>
          NumHeaviest >= Min(Min(minRequiredTips + 1,
                                 maxHeaviestBranchTipsPerCheckpoint),
                             Cardinality(snapshot.tips))]_vars

\* C20 witness: two heaviest picks were committed although each count was
\* below the threshold and the deadline had passed before the first pick.
C20_Witness ==
    /\ pc = "random"
    /\ minRequiredTips = 1
    /\ minHeaviestBranchUnreferencedMessagesThreshold = 2
    /\ heaviestBranchSelectionDeadline = 0
    /\ Len(picks) = 2
    /\ \A k \in 1..2 : picks[k].heaviest /\ picks[k].count = 1 /\ picks[k].exceeded

\* C21: a heaviest pick appended when the output already held more than
\* minRequiredTips tips has a count of at least the threshold and was made
\* with the deadline not seen as passed; the pass that stops the heaviest
\* loop appends nothing and leaves its candidate in the working list.
C21_NoHeaviestPickPastStop ==
    [][/\ (pc = "heaviest" /\ picks' # picks) =>
            LET p == picks'[Len(picks')]
            IN /\ p.heaviest
               /\ Len(picks') = Len(selTips')
               /\ Len(picks') > minRequiredTips + 1 =>
                    /\ p.count >= minHeaviestBranchUnreferencedMessagesThreshold
                    /\ ~p.exceeded
       /\ (pc = "heaviest" /\ pc' # "heaviest") =>
            /\ selTips' \in {selTips, <<>>}
            /\ pc' = "random" => UNCHANGED <<selTips, picks, tipsList, trackedMessages>>]_vars

\* C21 witness: with minRequiredTips = 0 and room for two heaviest picks the
\* loop has stopped after one pick, before the deadline, on a candidate
\* whose count is below the threshold and which is still in the working list.
C21_Witness ==
    /\ pc = "random"
    /\ i = 0
    /\ minRequiredTips = 0
    /\ maxHeaviestBranchTipsPerCheckpoint = 2
    /\ minHeaviestBranchUnreferencedMessagesThreshold = 2
    /\ ~deadlineExceeded
    /\ Len(picks) = 1
    /\ tipsList # {}
    /\ \A o \in tipsList : Cardinality(Refs(o)) = 1

\* the messages whose ingest completed after the snapshot of the running
\* SelectTips call
LateMessages == Tracked \ DOMAIN snapshot.refs

\* C22: when a successful SelectTips returns, no message ingested after its
\* snapshot is in its output, and none of them is tracked any longer: the
\* tracked map is empty and GetTrackedMessagesCount gives 0.
C22_LateMessagesAreDropped ==
    [][(pc = "reset" /\ pc' = "idle") =>
          /\ ~result'.err
          /\ \A m \in LateMessages :
                /\ m \notin SeqToSet(result'.out)
                /\ m \notin Tracked'
                /\ m \notin SeqToSet(tips')
          /\ GetTrackedMessagesCount(trackedMessages') = 0]_vars

\* C22 witness: a call is about to reset while two messages ingested after
\* its snapshot are tracked, one of them a child of a picked tip.
C22_Witness ==
    /\ pc = "reset"
    /\ Cardinality(LateMessages) = 2
    /\ \E m \in LateMessages : parents[m] \cap SeqToSet(selTips) # {}

\* a goroutine is inside a call of its method
InCall(t) ==
    \/ tpc[t] # "out"
    \/ t = "select" /\ pc # "idle"

\* C23: under fair scheduling every call of OnNewSolidMessage,
\* GetTrackedMessagesCount and SelectTips returns: the mutex is taken only
\* when free and by a goroutine that does not hold it, it is held exactly
\* inside the locked sections, SelectTips makes at most
\* maxHeaviestBranchTipsPerCheckpoint + randomTipsPerCheckpoint picks, and
\* every goroutine is again and again outside of a call, so that no call
\* lasts forever.
C23_EveryCallReturns ==
    /\ [][\A t \in Threads :
            (mutex' = t /\ mutex # t) => (mutex = "none" /\ tpc[t] = "out")]_vars
    /\ [](\A t \in Threads : (mutex = t) <=> (tpc[t] = "locked"))
    /\ [](Len(picks) <= maxHeaviestBranchTipsPerCheckpoint + randomTipsPerCheckpoint)
    /\ \A t \in Threads : []<>(~InCall(t))

\* C23 witness: SelectTips has made all its picks and waits for the mutex to
\* reset while OnNewSolidMessage holds it and GetTrackedMessagesCount is
\* reading.
C23_Witness ==
    /\ pc = "reset"
    /\ Len(picks) = MaxHeaviest + MaxRandom
    /\ tpc["ingest"] = "locked"
    /\ tpc["count"] = "reading"

\* C24: the number of tracked messages grows by exactly one on the ingest of
\* a new message, none being removed, stays the same on a duplicate ingest
\* and on a failed SelectTips, and becomes smaller only by the reset of a
\* successful SelectTips, which makes it 0.
C24_CountOnlyGrowsUntilReset ==
    [][LET n == GetTrackedMessagesCount(trackedMessages)
           n1 == GetTrackedMessagesCount(trackedMessages')
       IN /\ IsNewIngest => (n1 = n + 1 /\ Tracked \subseteq Tracked')
          /\ IsDuplicateIngest => (n1 = n /\ Tracked' = Tracked)
          /\ IsFailedSelect => (n1 = n /\ Tracked' = Tracked)
          /\ (n1 < n \/ ~(Tracked \subseteq Tracked')) =>
                (pc = "reset" /\ pc' = "idle" /\ n1 = 0)
          /\ n1 > n => IsNewIngest]_vars

\* C24 witness: a third message has just been ingested on top of its two
\* tracked parents, after a duplicate-free history, and three are tracked.
C24_Witness ==
    /\ result.op = "ingest"
    /\ ~result.contains
    /\ GetTrackedMessagesCount(trackedMessages) = 3
    /\ \E m \in Tracked : Cardinality(parents[m]) = 2
    /\ pc = "idle"

\* C25: outside a running selection every tracked message has its own bit
\* set and no bit above it, and during a selection every candidate left in
\* the working list has its own bit set, so that its count is at least 1.
C25_OwnBitIsHighest ==
    /\ pc = "idle" =>
          \A m \in Tracked :
              /\ trackedMessages[m].idx \in Refs(m)
              /\ \A b \in Refs(m) : b <= trackedMessages[m].idx
    /\ \A o \in tipsList :
          /\ trackedMessages[o].idx \in Refs(o)
          /\ Cardinality(Refs(o)) >= 1

\* C25 witness: a selection has picked a tip and the candidate that is left
\* has lost every bit but its own.
C25_Witness ==
    /\ pc = "heaviest"
    /\ Len(picks) = 1
    /\ \E o \in tipsList :
          /\ Cardinality(snapshot.refs[o]) = 2
          /\ Refs(o) = {trackedMessages[o].idx}

\* -------------------------------------------------------------- typing
TypeOK ==
    /\ Tracked \subseteq MIDs
    /\ SeqToSet(tips) \subseteq MIDs
    /\ pc \in {"idle", "heaviest", "random", "reset"}
    /\ tipsList \subseteq MIDs
    /\ i \in 0..(MaxHeaviest + MaxRandom)
    /\ deadlineExceeded \in BOOLEAN
    /\ mutex \in Threads \cup {"none"}
    /\ tpc \in [Threads -> {"out", "locked", "reading"}]
====
